---- MODULE Spec2Model ----
(***************************************************************************)
(* State-machine model of the WebGPU graph renderer component             *)
(* (src/src/renderers/WebGpuGraphRenderer.tsx): one mount of the          *)
(* component, its asynchronous initialize(), the scene publication and    *)
(* resize handlers, draw / syncCanvasSize, and the effect cleanup.        *)
(*                                                                         *)
(* GPU objects (device, uniform buffer, vertex buffers) are handles drawn *)
(* from one counter; `destroyed` is the set of handles whose destroy()    *)
(* has been called.  Device pixel ratios are kept in halves (2 = 1.0,     *)
(* 3 = 1.5) so that Math.floor(rect * dpr) stays integer arithmetic.      *)
(***************************************************************************)
EXTENDS Integers, Sequences, FiniteSets, TLC

\* ---------------------------------------------------------------- constants
FLOATS_PER_VERTEX == 6
BYTES_PER_FLOAT == 4
STRIDE_BYTES == FLOATS_PER_VERTEX * BYTES_PER_FLOAT
EDGE_SEGMENTS == 28
MinCapacityBytes == 4096
DefaultCanvasWidth == 300
DefaultCanvasHeight == 150

NoHandle == 0
NullRuntime == [device |-> NoHandle, uniformBuffer |-> NoHandle]
EmptyVertexBuffer == [buffer |-> NoHandle, capacityBytes |-> 0, vertexCount |-> 0]

NoStatus == "null"
AdapterUnavailable == "WebGPU adapter is unavailable."
SurfaceUnavailable == "Failed to acquire WebGPU context."
DeviceInitFailed == "Failed to initialize WebGPU device."
CapabilityUnavailable == "WebGPU is unavailable in this browser."

\* ------------------------------------------------------------------- bounds
MaxEdges == 7
MaxRect == 3
MaxPendingResize == 2

\* ------------------------------------------------------------------- inputs
\* navigator.gpu: property absent, present with value undefined / null, or
\* a GPU object.
NavGpuKinds == {"absent", "undefined", "null", "object"}
AdapterOutcomes == {"adapter", "null", "reject"}
DeviceOutcomes == {"device", "reject"}
\* Where the synchronous tail of initialize() fails, if anywhere.
InitFaults == {"none", "noContext", "configure", "pipeline", "bindGroup", "sync", "draw"}
RectSizes == {0, MaxRect}
DprHalves == {0, 3}

Max(a, b) == IF a >= b THEN a ELSE b

MkNode(i) == [id |-> i, x |-> 10 * i, y |-> 0, width |-> 4, height |-> 2]
MkNodes(n) == [i \in 1..n |-> MkNode(i)]
\* g edges between nodes 1 and 2, followed by b edges whose target id 9 is
\* not in any node list.
MkEdges(g, b) == [i \in 1..(g + b) |-> IF i <= g THEN [source |-> 1, target |-> 2]
                                                 ELSE [source |-> 1, target |-> 9]]
MkScene(n, g, b, v) == [nodes |-> MkNodes(n), edges |-> MkEdges(g, b),
                        viewport |-> [offsetX |-> v, offsetY |-> 0, zoom |-> 1]]
EdgeCounts == {0, 1, MaxEdges \div 2 + 1, MaxEdges}
Scenes == {MkScene(2, g, 0, 0) : g \in EdgeCounts}
          \cup {MkScene(0, 1, 0, 0), MkScene(2, 1, 1, 5)}
InitialScene == MkScene(2, 1, 0, 0)

VARIABLES
    navGpu,         \* what navigator.gpu is in this host
    mounted,        \* "no" | "yes" | "gone": lifecycle of the component
    pc,             \* position of initialize()
    disposed,       \* the effect's `disposed` flag
    runtimeRef,     \* runtimeRef.current
    runtimeError,   \* the runtimeError state
    dprRef,         \* dprRef.current, in halves
    sceneRef,       \* sceneRef.current
    edgeBuffer,     \* edgeBufferRef.current
    nodeBuffer,     \* nodeBufferRef.current
    canvasW,        \* canvas.width
    canvasH,        \* canvas.height
    uniformRes,     \* last resolution written to the uniform buffer
    nextHandle,     \* next GPU object handle
    devices,        \* handles of the devices obtained from requestDevice
    destroyed,      \* handles whose destroy() was called
    ops,            \* host / GPU calls made by the last step, in order
    escaped,        \* an exception or rejection left initialize()
    initLog,        \* milestones of initialize(), in order
    rectW,          \* host element content box width
    rectH,          \* host element content box height
    winDpr,         \* window.devicePixelRatio, in halves
    pendingResize,  \* resize notifications not yet delivered
    geoIn,          \* arguments of the geometry function under check
    geoOut,         \* its result
    chat            \* the chat controller's state, refs and pending request

vars == <<navGpu, mounted, pc, disposed, runtimeRef, runtimeError, dprRef, sceneRef,
          edgeBuffer, nodeBuffer, canvasW, canvasH, uniformRes, nextHandle, devices,
          destroyed, ops, escaped, initLog, rectW, rectH, winDpr, pendingResize,
          geoIn, geoOut, chat>>
geoVars == <<geoIn, geoOut, chat>>

\* The chat controller at its first render: useState and useRef initial
\* values, no completion request in flight.  Texts are sequences of
\* characters.  `sent` counts the sends that passed the guards and `calls`
\* lists the calls of the last step.
ChatIdle == [engineStatus |-> "idle", engine |-> "null", errorMessage |-> "null",
             loading |-> FALSE, history |-> <<>>, historyRef |-> <<>>,
             displayMessages |-> <<>>, request |-> "none", sent |-> 0,
             calls |-> <<>>]

\* The mutable cells the handlers work on, as one record, so that the calls
\* a handler makes compose in program order.
Cur == [disposed |-> disposed, runtimeRef |-> runtimeRef, runtimeError |-> runtimeError,
        dprRef |-> dprRef, sceneRef |-> sceneRef, edgeBuffer |-> edgeBuffer,
        nodeBuffer |-> nodeBuffer, canvasW |-> canvasW, canvasH |-> canvasH,
        uniformRes |-> uniformRes, nextHandle |-> nextHandle, devices |-> devices,
        destroyed |-> destroyed, ops |-> <<>>, thrown |-> FALSE, initLog |-> initLog,
        pc |-> pc]

Commit(s) ==
    /\ disposed' = s.disposed
    /\ runtimeRef' = s.runtimeRef
    /\ runtimeError' = s.runtimeError
    /\ dprRef' = s.dprRef
    /\ sceneRef' = s.sceneRef
    /\ edgeBuffer' = s.edgeBuffer
    /\ nodeBuffer' = s.nodeBuffer
    /\ canvasW' = s.canvasW
    /\ canvasH' = s.canvasH
    /\ uniformRes' = s.uniformRes
    /\ nextHandle' = s.nextHandle
    /\ devices' = s.devices
    /\ destroyed' = s.destroyed
    /\ ops' = s.ops
    /\ initLog' = s.initLog
    /\ pc' = s.pc

Op(s, name) == [s EXCEPT !.ops = Append(@, name)]
Log(s, name) == [s EXCEPT !.initLog = Append(@, name)]
Throw(s) == [s EXCEPT !.thrown = TRUE]


\* ------------------------------------------------------------- scene build
\* A Map is a function from its keys; `new Map()` has none.
EmptyMap == [k \in {} |-> 0]

\* Variant of MapSet that keeps the value a key already has.
MapSet_KeepsFirst(map, key, value) ==
    [k \in DOMAIN map \cup {key} |-> IF k \in DOMAIN map THEN map[k] ELSE value]

\* `map.set(key, value)`.
MapSet(map, key, value) ==
    [k \in DOMAIN map \cup {key} |-> IF k = key THEN value ELSE map[k]]

\* createNodeMap: `nodes.forEach((node) => map.set(node.id, node))`.
RECURSIVE NodeMapLoop(_, _, _)
NodeMapLoop(nodes, i, map) ==
    IF i > Len(nodes) THEN map
    ELSE NodeMapLoop(nodes, i + 1, MapSet(map, nodes[i].id, nodes[i]))
createNodeMap(nodes) == NodeMapLoop(nodes, 1, EmptyMap)

\* Variant of EdgeFloats that looks up the source only.
EdgeFloats_SourceOnly(edge, nodeMap) ==
    IF edge.source \notin DOMAIN nodeMap THEN 0
    ELSE EDGE_SEGMENTS * 2 * FLOATS_PER_VERTEX

\* Floats appended to edgeVertices by one edge: nothing when an endpoint does
\* not resolve, else two vertices for each of the EDGE_SEGMENTS segments.
EdgeFloats(edge, nodeMap) ==
    IF edge.source \notin DOMAIN nodeMap \/ edge.target \notin DOMAIN nodeMap
    THEN 0
    ELSE EDGE_SEGMENTS * 2 * FLOATS_PER_VERTEX

RECURSIVE EdgeVertexFloats(_, _)
EdgeVertexFloats(edges, nodeMap) ==
    IF edges = <<>> THEN 0
    ELSE EdgeFloats(Head(edges), nodeMap) + EdgeVertexFloats(Tail(edges), nodeMap)

\* Floats appended to nodeVertices: six vertices for every entry of the list.
NodeVertexFloats(nodes) == Len(nodes) * 6 * FLOATS_PER_VERTEX

\* ------------------------------------------------------- dynamic buffers
\* Variant of ensureVertexBuffer that keeps the buffer only when the size
\* matches exactly.
ensureVertexBuffer_ExactFit(s, which, requiredBytes) ==
    LET state == s[which] IN
    IF state.buffer # NoHandle /\ state.capacityBytes = requiredBytes THEN s
    ELSE
        LET s1 == IF state.buffer # NoHandle
                  THEN Op([s EXCEPT !.destroyed = @ \cup {state.buffer}],
                          <<"destroyBuffer", state.buffer>>)
                  ELSE s
            cap == Max(MinCapacityBytes, requiredBytes)
        IN Op([s1 EXCEPT ![which] = [buffer |-> s.nextHandle, capacityBytes |-> cap,
                                     vertexCount |-> state.vertexCount],
                        !.nextHandle = @ + 1],
              <<"createBuffer", s.nextHandle, cap>>)

\* Variant of ensureVertexBuffer that grows to the required size without
\* doubling.
ensureVertexBuffer_NoDoubling(s, which, requiredBytes) ==
    LET state == s[which] IN
    IF state.buffer # NoHandle /\ state.capacityBytes >= requiredBytes THEN s
    ELSE
        LET s1 == IF state.buffer # NoHandle
                  THEN Op([s EXCEPT !.destroyed = @ \cup {state.buffer}],
                          <<"destroyBuffer", state.buffer>>)
                  ELSE s
            cap == Max(MinCapacityBytes, requiredBytes)
        IN Op([s1 EXCEPT ![which] = [buffer |-> s.nextHandle, capacityBytes |-> cap,
                                     vertexCount |-> state.vertexCount],
                        !.nextHandle = @ + 1],
              <<"createBuffer", s.nextHandle, cap>>)

\* Variant of ensureVertexBuffer that destroys the old buffer and sets the
\* new capacity without storing the buffer it creates.
ensureVertexBuffer_KeepsOldHandle(s, which, requiredBytes) ==
    LET state == s[which] IN
    IF state.buffer # NoHandle /\ state.capacityBytes >= requiredBytes THEN s
    ELSE IF state.buffer = NoHandle
    THEN Op([s EXCEPT ![which].buffer = s.nextHandle,
                      ![which].capacityBytes = Max(MinCapacityBytes, requiredBytes),
                      !.nextHandle = @ + 1],
            <<"createBuffer", s.nextHandle, Max(MinCapacityBytes, requiredBytes)>>)
    ELSE LET cap == Max(MinCapacityBytes, Max(requiredBytes, state.capacityBytes * 2))
         IN Op(Op([s EXCEPT !.destroyed = @ \cup {state.buffer},
                            ![which].capacityBytes = cap,
                            !.nextHandle = @ + 1],
                  <<"destroyBuffer", state.buffer>>),
               <<"createBuffer", s.nextHandle, cap>>)

\* ensureVertexBuffer on the record kept in field `which` of s.
ensureVertexBuffer(s, which, requiredBytes) ==
    LET state == s[which] IN
    IF state.buffer # NoHandle /\ state.capacityBytes >= requiredBytes THEN s
    ELSE
        LET s1 == IF state.buffer # NoHandle
                  THEN Op([s EXCEPT !.destroyed = @ \cup {state.buffer}],
                          <<"destroyBuffer", state.buffer>>)
                  ELSE s
            cap == Max(MinCapacityBytes, Max(requiredBytes, state.capacityBytes * 2))
        IN Op([s1 EXCEPT ![which] = [buffer |-> s.nextHandle, capacityBytes |-> cap,
                                     vertexCount |-> state.vertexCount],
                        !.nextHandle = @ + 1],
              <<"createBuffer", s.nextHandle, cap>>)

\* Variant of uploadVertices that returns on an empty payload before it
\* stores the vertex count.
uploadVertices_EmptyKeepsCount(s, which, floats) ==
    IF floats = 0 THEN s
    ELSE
        LET s1 == [s EXCEPT ![which].vertexCount = floats \div FLOATS_PER_VERTEX]
            s2 == ensureVertexBuffer(s1, which, floats * BYTES_PER_FLOAT)
        IN Op(s2, <<"writeBuffer", s2[which].buffer, 0, floats * BYTES_PER_FLOAT>>)

\* uploadVertices, `floats` being data.length.
uploadVertices(s, which, floats) ==
    LET s1 == [s EXCEPT ![which].vertexCount = floats \div FLOATS_PER_VERTEX] IN
    IF floats = 0 THEN s1
    ELSE
        LET s2 == ensureVertexBuffer(s1, which, floats * BYTES_PER_FLOAT) IN
        IF s2[which].buffer = NoHandle THEN s2
        ELSE Op(s2, <<"writeBuffer", s2[which].buffer, 0, floats * BYTES_PER_FLOAT>>)

\* ------------------------------------------------------- syncCanvasSize
\* Variant of SurfaceSize without the one-pixel minimum.
SurfaceSize_NoMinimum(rect, dprHalves) == (rect * dprHalves) \div 2

SurfaceSize(rect, dprHalves) == Max(1, (rect * dprHalves) \div 2)
EffectiveDpr(raw) == IF raw = 0 THEN 2 ELSE raw

\* rw, rh, rawDpr: what getBoundingClientRect and window.devicePixelRatio
\* return at the call; `fails` makes queue.writeBuffer throw.
syncCanvasSize(s, rw, rh, rawDpr, fails) ==
    IF s.runtimeRef = NullRuntime THEN s
    ELSE
        LET dpr == EffectiveDpr(rawDpr)
            width == SurfaceSize(rw, dpr)
            height == SurfaceSize(rh, dpr)
            s0 == Op(s, <<"syncCanvasSize">>)
            s1 == IF s.canvasW # width \/ s.canvasH # height
                  THEN Op([s0 EXCEPT !.canvasW = width, !.canvasH = height],
                          <<"resizeCanvas", width, height>>)
                  ELSE s0
            s2 == [s1 EXCEPT !.dprRef = dpr]
        IN  IF fails THEN Throw(s2)
            ELSE Op([s2 EXCEPT !.uniformRes = <<width, height>>],
                    <<"writeUniform", s.runtimeRef.uniformBuffer, width, height>>)

\* ------------------------------------------------------------------ draw
\* Variant of DrawSkipped that tests the width only.
DrawSkipped_WidthOnly(s) == s.runtimeRef = NullRuntime \/ s.canvasW = 0

\* `if (!runtime || !canvas || canvas.width === 0 || canvas.height === 0) return;`
DrawSkipped(s) == s.runtimeRef = NullRuntime \/ s.canvasW = 0 \/ s.canvasH = 0

\* Variant of SceneRead that takes the nodes and edges of the props captured
\* when the callback was created and only the viewport from the ref.
SceneRead_CapturedProps(s) ==
    [nodes |-> InitialScene.nodes, edges |-> InitialScene.edges,
     viewport |-> s.sceneRef.viewport]

\* `const { edges, nodes, viewport } = sceneRef.current;`
SceneRead(s) == s.sceneRef

\* Variant of PassDraws that nests the node draw call in the edge test.
PassDraws_NodesNeedEdges(s) ==
    IF s.edgeBuffer.vertexCount > 0 /\ s.edgeBuffer.buffer # NoHandle
    THEN LET s1 == IF s.nodeBuffer.vertexCount > 0 /\ s.nodeBuffer.buffer # NoHandle
                   THEN Op(s, <<"drawNodes", s.nodeBuffer.buffer, s.nodeBuffer.vertexCount>>)
                   ELSE s
         IN Op(s1, <<"drawEdges", s1.edgeBuffer.buffer, s1.edgeBuffer.vertexCount>>)
    ELSE s

\* The two optional draw calls of the render pass, nodes first.
PassDraws(s) ==
    LET s1 == IF s.nodeBuffer.vertexCount > 0 /\ s.nodeBuffer.buffer # NoHandle
              THEN Op(s, <<"drawNodes", s.nodeBuffer.buffer, s.nodeBuffer.vertexCount>>)
              ELSE s
    IN  IF s1.edgeBuffer.vertexCount > 0 /\ s1.edgeBuffer.buffer # NoHandle
        THEN Op(s1, <<"drawEdges", s1.edgeBuffer.buffer, s1.edgeBuffer.vertexCount>>)
        ELSE s1

\* `fails` makes context.getCurrentTexture() throw, after the uploads.
draw(s, fails) ==
    IF DrawSkipped(s) THEN s
    ELSE
        LET scene == SceneRead(s)
            nodeMap == createNodeMap(scene.nodes)
            s0 == Op(s, <<"draw", scene.nodes, scene.edges, scene.viewport, s.dprRef>>)
            s1 == uploadVertices(s0, "edgeBuffer", EdgeVertexFloats(scene.edges, nodeMap))
            s2 == uploadVertices(s1, "nodeBuffer", NodeVertexFloats(scene.nodes))
        IN  IF fails THEN Throw(s2)
            ELSE
                LET s3 == Op(Op(s2, <<"beginRenderPass">>), <<"setBindGroup">>)
                    s4 == PassDraws(s3)
                IN Op(Op(s4, <<"endPass">>), <<"submit", s.runtimeRef.device>>)


\* ---------------------------------------------------- capability detection
\* resolveGpuNavigator: `nav.gpu ?? null`, so undefined and null give null.
resolveGpuNavigator(nav) == IF nav = "object" THEN "gpu" ELSE "null"
\* browserHasWebGpu: `"gpu" in navigator`, true whenever the property exists.
browserHasWebGpu(nav) == nav # "absent"
\* statusText as the component renders it.
statusText == IF ~browserHasWebGpu(navGpu) THEN CapabilityUnavailable ELSE runtimeError

\* ------------------------------------------------------------ initialize()
setRuntimeError(s, value) ==
    Op([s EXCEPT !.runtimeError = value], <<"setRuntimeError", value>>)

Finish(s) == [s EXCEPT !.pc = "done"]

\* Variant of Catch that reports the status and throws again.
Catch_Rethrows(s) ==
    IF ~s.disposed THEN setRuntimeError(s, DeviceInitFailed) ELSE s

\* The catch block of initialize().
Catch(s) ==
    LET c == [s EXCEPT !.thrown = FALSE] IN
    IF ~c.disposed THEN setRuntimeError(c, DeviceInitFailed) ELSE c

\* try { body } catch { ... }: a throw in the body ends initialize() in the
\* catch block.
TryCatch(body) == IF body.thrown THEN Finish(Catch(body)) ELSE body

\* initialize() up to its first await.
StartInitialize(s) ==
    Log(Op([s EXCEPT !.pc = "awaitAdapter"], <<"requestAdapter">>), "requestAdapter")

\* Variant of NoAdapter that reports the status and goes on to the device
\* request instead of returning.
NoAdapter_NoReturn(s) ==
    Op([(IF ~s.disposed THEN setRuntimeError(s, AdapterUnavailable) ELSE s)
            EXCEPT !.pc = "awaitDevice"], <<"requestDevice">>)

\* `if (!adapter) { if (!disposed) setRuntimeError(...); return; }`
NoAdapter(s) ==
    Finish(IF ~s.disposed THEN setRuntimeError(s, AdapterUnavailable) ELSE s)

\* The continuation of `await gpu.requestAdapter()`.
ResumeAfterAdapter(s, outcome) ==
    TryCatch(
        CASE outcome = "reject" -> Throw(s)
          [] outcome = "null" -> NoAdapter(s)
          [] outcome = "adapter" ->
                Log(Op([Log(s, "adapter") EXCEPT !.pc = "awaitDevice"], <<"requestDevice">>),
                    "requestDevice"))

\* requestDevice resolved: a new device object exists from here on.
AcquireDevice(s) ==
    Log([s EXCEPT !.devices = @ \cup {s.nextHandle}, !.nextHandle = @ + 1], "device")

\* Variant of AbandonAfterDevice without the disposed check.
AbandonAfterDevice_Unchecked(s) == FALSE

\* `if (disposed) return;` after the device request.
AbandonAfterDevice(s) == s.disposed

\* `if (!context) { if (!disposed) setRuntimeError(...); return; }`
NoContext(s) ==
    Finish(IF ~s.disposed THEN setRuntimeError(s, SurfaceUnavailable) ELSE s)

\* Variant of SetupPipeline that stores the runtime before configuring the
\* context.
SetupPipeline_InstallsFirst(s, fault, d) ==
    LET s1 == [Log(s, "context") EXCEPT !.runtimeRef =
                   [device |-> d, uniformBuffer |-> s.nextHandle], !.nextHandle = @ + 1]
    IN  IF fault \in {"configure", "pipeline", "bindGroup"} THEN Throw(s1)
        ELSE Log(Log(s1, "configure"), "runtime")

\* context.configure(...) through createBindGroup(...), for device d.
SetupPipeline(s, fault, d) ==
    LET s1 == Log(s, "context") IN
    IF fault = "configure" THEN Throw(s1)
    ELSE
        LET s2 == Op(Log(s1, "configure"), <<"configure", d>>) IN
        IF fault = "pipeline" THEN Throw(s2)
        ELSE
            LET s3 == Op([s2 EXCEPT !.nextHandle = @ + 1],
                         <<"createUniformBuffer", s2.nextHandle>>)
            IN  IF fault = "bindGroup" THEN Throw(s3)
                ELSE Log(Op([s3 EXCEPT !.runtimeRef =
                                 [device |-> d, uniformBuffer |-> s2.nextHandle]],
                            <<"installRuntime">>),
                         "runtime")

\* Variant of InitialFrame that draws before the size sync.
InitialFrame_DrawsFirst(s, fault, rw, rh, rawDpr) ==
    IF s.disposed THEN s
    ELSE
        LET s1 == draw(setRuntimeError(s, NoStatus), fault = "draw")
            s2 == IF s1.thrown THEN s1 ELSE syncCanvasSize(s1, rw, rh, rawDpr, fault = "sync")
        IN  IF s2.thrown THEN s2 ELSE Log(s2, "ready")

\* `if (!disposed) { setRuntimeError(null); syncCanvasSize(); draw(); }`
InitialFrame(s, fault, rw, rh, rawDpr) ==
    IF s.disposed THEN s
    ELSE
        LET s1 == setRuntimeError(s, NoStatus)
            s2 == syncCanvasSize(s1, rw, rh, rawDpr, fault = "sync")
            s3 == IF s2.thrown THEN s2 ELSE draw(s2, fault = "draw")
        IN  IF s3.thrown THEN s3 ELSE Log(s3, "ready")

\* The continuation of `await adapter.requestDevice()`.
ResumeAfterDevice(s, outcome, fault, rw, rh, rawDpr) ==
    TryCatch(
        IF outcome = "reject" THEN Throw(s)
        ELSE
            LET a == AcquireDevice(s)
                d == s.nextHandle
            IN  IF AbandonAfterDevice(a) THEN Finish(a)
                ELSE IF fault = "noContext" THEN NoContext(a)
                ELSE
                    LET b == SetupPipeline(a, fault, d) IN
                    IF b.thrown THEN b
                    ELSE Finish(InitialFrame(b, fault, rw, rh, rawDpr)))

\* ---------------------------------------------------------------- teardown
\* Variant of DestroyIf that drops the reference without calling destroy().
DestroyIf_OnlyForgets(s, handle, what) == s

DestroyIf(s, handle, what) ==
    IF handle = NoHandle THEN s
    ELSE Op([s EXCEPT !.destroyed = @ \cup {handle}], <<what, handle>>)

\* The cleanup returned by the initialization effect.
Teardown(s) ==
    LET s1 == [s EXCEPT !.disposed = TRUE]
        s2 == DestroyIf(s1, s1.edgeBuffer.buffer, "destroyBuffer")
        s3 == DestroyIf(s2, s2.nodeBuffer.buffer, "destroyBuffer")
        s4 == DestroyIf(s3, s3.runtimeRef.uniformBuffer, "destroyUniformBuffer")
        s5 == DestroyIf(s4, s4.runtimeRef.device, "destroyDevice")
    IN [s5 EXCEPT !.edgeBuffer = EmptyVertexBuffer,
                  !.nodeBuffer = EmptyVertexBuffer,
                  !.runtimeRef = NullRuntime]

\* ----------------------------------------------------------------- actions
Init ==
    /\ navGpu \in NavGpuKinds
    /\ mounted = "no"
    /\ pc = "idle"
    /\ disposed = FALSE
    /\ runtimeRef = NullRuntime
    /\ runtimeError = NoStatus
    /\ dprRef = 2
    /\ sceneRef = InitialScene
    /\ edgeBuffer = EmptyVertexBuffer
    /\ nodeBuffer = EmptyVertexBuffer
    /\ canvasW = DefaultCanvasWidth
    /\ canvasH = DefaultCanvasHeight
    /\ uniformRes = <<>>
    /\ nextHandle = 1
    /\ devices = {}
    /\ destroyed = {}
    /\ ops = <<>>
    /\ escaped = FALSE
    /\ initLog = <<>>
    /\ rectW = MaxRect
    /\ rectH = MaxRect
    /\ winDpr = 2
    /\ pendingResize = 0
    /\ geoIn = <<>>
    /\ geoOut = <<>>
    /\ chat = ChatIdle

\* First commit: the three effects run in declaration order.  The scene
\* effect stores the props and draws, the initialization effect starts
\* initialize() when a gpu object resolves, the resize effect subscribes and
\* calls handleResize() once.
Mount ==
    /\ mounted = "no"
    /\ mounted' = "yes"
    /\ LET s1 == draw([Cur EXCEPT !.sceneRef = sceneRef], FALSE)
           s2 == IF resolveGpuNavigator(navGpu) = "null"
                 THEN [s1 EXCEPT !.pc = "noInit"]
                 ELSE StartInitialize([s1 EXCEPT !.disposed = FALSE])
           s3 == draw(syncCanvasSize(s2, rectW, rectH, winDpr, FALSE), FALSE)
       IN Commit(s3)
    /\ UNCHANGED <<navGpu, escaped, rectW, rectH, winDpr, pendingResize, geoIn, geoOut, chat>>

\* The host passes new props: `sceneRef.current = {...}; draw();`
\* A throw of draw() in an effect or in handleResize is outside initialize()
\* and unmounts the component; the state it leaves is the one Unmount starts
\* from, so the handlers below run their calls to completion.
Publish(scene) ==
    /\ mounted = "yes"
    /\ Commit(draw([Cur EXCEPT !.sceneRef = scene], FALSE))
    /\ UNCHANGED <<navGpu, mounted, escaped, rectW, rectH, winDpr, pendingResize, geoIn, geoOut, chat>>

\* The host element or the device pixel ratio changes; a resize notification
\* is queued for the observer / window listener.
HostResize(w, h, d) ==
    /\ mounted = "yes"
    /\ pendingResize < MaxPendingResize
    /\ rectW' = w /\ rectH' = h /\ winDpr' = d
    /\ pendingResize' = pendingResize + 1
    /\ ops' = <<>>
    /\ UNCHANGED <<navGpu, mounted, pc, disposed, runtimeRef, runtimeError, dprRef,
                   sceneRef, edgeBuffer, nodeBuffer, canvasW, canvasH, uniformRes,
                   nextHandle, devices, destroyed, escaped, initLog, geoIn, geoOut, chat>>

\* handleResize: `syncCanvasSize(); draw();`
HandleResize ==
    /\ mounted = "yes"
    /\ pendingResize > 0
    /\ pendingResize' = pendingResize - 1
    /\ Commit(draw(syncCanvasSize(Cur, rectW, rectH, winDpr, FALSE), FALSE))
    /\ UNCHANGED <<navGpu, mounted, escaped, rectW, rectH, winDpr, geoIn, geoOut, chat>>

\* The adapter promise settles and initialize() resumes.
AdapterSettles(outcome) ==
    /\ pc = "awaitAdapter"
    /\ LET r == ResumeAfterAdapter(Cur, outcome) IN
        /\ Commit(r)
        /\ escaped' = (escaped \/ r.thrown)
    /\ UNCHANGED <<navGpu, mounted, rectW, rectH, winDpr, pendingResize, geoIn, geoOut, chat>>

\* The device promise settles and initialize() runs to its end.
DeviceSettles(outcome, fault) ==
    /\ pc = "awaitDevice"
    /\ LET r == ResumeAfterDevice(Cur, outcome, fault, rectW, rectH, winDpr) IN
        /\ Commit(r)
        /\ escaped' = (escaped \/ r.thrown)
    /\ UNCHANGED <<navGpu, mounted, rectW, rectH, winDpr, pendingResize, geoIn, geoOut, chat>>

\* The component unmounts: the initialization effect's cleanup runs if the
\* effect returned one, and the resize effect unsubscribes.
Unmount ==
    /\ mounted = "yes"
    /\ mounted' = "gone"
    /\ pendingResize' = 0
    /\ Commit(IF pc = "noInit" THEN Cur ELSE Teardown(Cur))
    /\ UNCHANGED <<navGpu, escaped, rectW, rectH, winDpr, geoIn, geoOut, chat>>

Next ==
    \/ Mount
    \/ \E scene \in Scenes : Publish(scene)
    \/ \E w \in RectSizes, h \in RectSizes, d \in DprHalves : HostResize(w, h, d)
    \/ HandleResize
    \/ \E o \in AdapterOutcomes : AdapterSettles(o)
    \/ \E o \in DeviceOutcomes, f \in InitFaults : DeviceSettles(o, f)
    \/ Unmount

Spec == Init /\ [][Next]_vars


\* ------------------------------------------------ draw() on a given canvas
\* draw() as a function of the renderer state it finds: a ready renderer
\* whose canvas has the pixel size the host gave it, zero included.
CanvasSizes == {0, 1, MaxRect}
DrawInit ==
    /\ navGpu = "object"
    /\ mounted = "yes"
    /\ pc = "done"
    /\ disposed = FALSE
    /\ runtimeRef = [device |-> 1, uniformBuffer |-> 2]
    /\ runtimeError = NoStatus
    /\ dprRef = 2
    /\ sceneRef = InitialScene
    /\ edgeBuffer \in {EmptyVertexBuffer,
                       [buffer |-> 3, capacityBytes |-> MinCapacityBytes,
                        vertexCount |-> EDGE_SEGMENTS * 2]}
    /\ nodeBuffer \in {EmptyVertexBuffer,
                       [buffer |-> 4, capacityBytes |-> MinCapacityBytes, vertexCount |-> 12]}
    /\ canvasW \in CanvasSizes
    /\ canvasH \in CanvasSizes
    /\ uniformRes = <<1, 1>>
    /\ nextHandle = 5
    /\ devices = {1}
    /\ destroyed = {}
    /\ ops = <<>>
    /\ escaped = FALSE
    /\ initLog = <<"requestAdapter", "adapter", "requestDevice", "device", "context",
                   "configure", "runtime", "ready">>
    /\ rectW = MaxRect
    /\ rectH = MaxRect
    /\ winDpr = 2
    /\ pendingResize = 0
    /\ geoIn = <<>>
    /\ geoOut = <<>>
    /\ chat = ChatIdle

\* A call of draw() with the scene as it is.
DrawCall ==
    /\ Commit(draw(Cur, FALSE))
    /\ UNCHANGED <<navGpu, mounted, escaped, rectW, rectH, winDpr, pendingResize,
                   geoIn, geoOut, chat>>

DrawNext ==
    \/ DrawCall
    \/ \E scene \in Scenes : Publish(scene)

DrawSpec == DrawInit /\ [][DrawNext]_vars

\* ------------------------------------------------------ geometry helpers
\* The hit-test helpers are pure functions of their arguments; they are
\* applied to node lists and points drawn from small sets.
MaxHitNodes == 2
MaxCoord == 3
Undefined == [undefined |-> TRUE]
HitNodes(i) == {[id |-> i, x |-> px, y |-> py, width |-> w, height |-> 1] :
                  px \in 0..1, py \in 0..1, w \in {0, 2}}
HitNodeLists ==
    UNION {{f \in [1..n -> UNION {HitNodes(i) : i \in 1..MaxHitNodes}] :
              \A i \in 1..n : f[i].id = i} : n \in 0..MaxHitNodes}

isPointInsideNode(worldX, worldY, node) ==
    /\ worldX >= node.x
    /\ worldX <= node.x + node.width
    /\ worldY >= node.y
    /\ worldY <= node.y + node.height

\* Variant of getTopNodeAtPoint that scans from the front of the list.
RECURSIVE ScanUp(_, _, _, _)
ScanUp(nodes, worldX, worldY, i) ==
    IF i > Len(nodes) THEN Undefined
    ELSE IF isPointInsideNode(worldX, worldY, nodes[i]) THEN nodes[i]
    ELSE ScanUp(nodes, worldX, worldY, i + 1)
getTopNodeAtPoint_FirstMatch(nodes, worldX, worldY) == ScanUp(nodes, worldX, worldY, 1)

\* `for (let i = nodes.length - 1; i >= 0; i -= 1)`, with 1-based indices.
RECURSIVE ScanDown(_, _, _, _)
ScanDown(nodes, worldX, worldY, i) ==
    IF i < 1 THEN Undefined
    ELSE IF isPointInsideNode(worldX, worldY, nodes[i]) THEN nodes[i]
    ELSE ScanDown(nodes, worldX, worldY, i - 1)
getTopNodeAtPoint(nodes, worldX, worldY) == ScanDown(nodes, worldX, worldY, Len(nodes))

GeomInit ==
    /\ navGpu = "absent"
    /\ mounted = "no"
    /\ pc = "idle"
    /\ disposed = FALSE
    /\ runtimeRef = NullRuntime
    /\ runtimeError = NoStatus
    /\ dprRef = 2
    /\ sceneRef = InitialScene
    /\ edgeBuffer = EmptyVertexBuffer
    /\ nodeBuffer = EmptyVertexBuffer
    /\ canvasW = DefaultCanvasWidth
    /\ canvasH = DefaultCanvasHeight
    /\ uniformRes = <<>>
    /\ nextHandle = 1
    /\ devices = {}
    /\ destroyed = {}
    /\ ops = <<>>
    /\ escaped = FALSE
    /\ initLog = <<>>
    /\ rectW = MaxRect
    /\ rectH = MaxRect
    /\ winDpr = 2
    /\ pendingResize = 0
    /\ geoIn \in [nodes : HitNodeLists, x : 0..MaxCoord, y : 0..MaxCoord]
    /\ geoOut = <<>>
    /\ chat = ChatIdle

\* A call of getTopNodeAtPoint on the arguments at hand.
HitTest ==
    /\ geoOut = <<>>
    /\ geoOut' = <<getTopNodeAtPoint(geoIn.nodes, geoIn.x, geoIn.y)>>
    /\ UNCHANGED <<navGpu, mounted, pc, disposed, runtimeRef, runtimeError, dprRef,
                   sceneRef, edgeBuffer, nodeBuffer, canvasW, canvasH, uniformRes,
                   nextHandle, devices, destroyed, ops, escaped, initLog, rectW, rectH,
                   winDpr, pendingResize, geoIn, chat>>

GeomNext == HitTest

GeomSpec == GeomInit /\ [][GeomNext]_vars

\* ------------------------------------------------------------ getNodesBounds
\* Coordinates are integers; the two centre fields, which halve a width,
\* are kept in half units (centerX2 = 2 * centerX).
MaxBoundsNodes == 3
Min(a, b) == IF a <= b THEN a ELSE b
BoundsNodes(i) == {[id |-> i, x |-> px, y |-> py, width |-> w, height |-> h] :
                     px \in {-2, 0, 1}, py \in {-1, 0}, w \in {0, 3}, h \in {1}}
BoundsNodeLists ==
    UNION {{f \in [1..n -> UNION {BoundsNodes(i) : i \in 1..MaxBoundsNodes}] :
              \A i \in 1..n : f[i].id = i} : n \in 0..MaxBoundsNodes}

\* Variant of Widen that keeps the maxima found so far.
Widen_MinimaOnly(acc, node) ==
    [minX |-> Min(acc.minX, node.x), minY |-> Min(acc.minY, node.y),
     maxX |-> acc.maxX, maxY |-> acc.maxY]

\* The body of the loop over nodes[1..]: four running extremes.
Widen(acc, node) ==
    [minX |-> Min(acc.minX, node.x), minY |-> Min(acc.minY, node.y),
     maxX |-> Max(acc.maxX, node.x + node.width),
     maxY |-> Max(acc.maxY, node.y + node.height)]

RECURSIVE BoundsLoop(_, _, _)
BoundsLoop(nodes, i, acc) ==
    IF i > Len(nodes) THEN acc ELSE BoundsLoop(nodes, i + 1, Widen(acc, nodes[i]))

getNodesBounds(nodes) ==
    IF Len(nodes) = 0 THEN Undefined
    ELSE LET first == [minX |-> nodes[1].x, minY |-> nodes[1].y,
                       maxX |-> nodes[1].x + nodes[1].width,
                       maxY |-> nodes[1].y + nodes[1].height]
             b == BoundsLoop(nodes, 2, first)
             width == b.maxX - b.minX
             height == b.maxY - b.minY
         IN [centerX2 |-> 2 * b.minX + width, centerY2 |-> 2 * b.minY + height,
             height |-> height, maxX |-> b.maxX, maxY |-> b.maxY,
             minX |-> b.minX, minY |-> b.minY, width |-> width]

\* The renderer, never mounted, while a geometry helper is exercised.
RendererIdle ==
    /\ navGpu = "absent"
    /\ mounted = "no"
    /\ pc = "idle"
    /\ disposed = FALSE
    /\ runtimeRef = NullRuntime
    /\ runtimeError = NoStatus
    /\ dprRef = 2
    /\ sceneRef = InitialScene
    /\ edgeBuffer = EmptyVertexBuffer
    /\ nodeBuffer = EmptyVertexBuffer
    /\ canvasW = DefaultCanvasWidth
    /\ canvasH = DefaultCanvasHeight
    /\ uniformRes = <<>>
    /\ nextHandle = 1
    /\ devices = {}
    /\ destroyed = {}
    /\ ops = <<>>
    /\ escaped = FALSE
    /\ initLog = <<>>
    /\ rectW = MaxRect
    /\ rectH = MaxRect
    /\ winDpr = 2
    /\ pendingResize = 0
RendererUntouched ==
    UNCHANGED <<navGpu, mounted, pc, disposed, runtimeRef, runtimeError, dprRef,
                sceneRef, edgeBuffer, nodeBuffer, canvasW, canvasH, uniformRes,
                nextHandle, devices, destroyed, ops, escaped, initLog, rectW, rectH,
                winDpr, pendingResize>>

BoundsInit ==
    /\ RendererIdle
    /\ geoIn \in [nodes : BoundsNodeLists]
    /\ geoOut = <<>>
    /\ chat = ChatIdle

\* A call of getNodesBounds on the list at hand.
BoundsCall ==
    /\ geoOut = <<>>
    /\ geoOut' = <<getNodesBounds(geoIn.nodes)>>
    /\ RendererUntouched
    /\ UNCHANGED <<geoIn, chat>>

BoundsNext == BoundsCall

BoundsSpec == BoundsInit /\ [][BoundsNext]_vars

\* -------------------------------------------- getEdgeCurve, cubicBezierPoint
\* JavaScript numbers: a finite value, an infinity or NaN.  MaxFinite stands
\* for Number.MAX_VALUE: a sum or product beyond it is an infinity.  Finite
\* values are integers; the inputs are chosen so that the halving and the
\* factor 0.35 of getEdgeCurve are exact on them.
MaxFinite == 200
Fin(n) == [k |-> "fin", v |-> n]
PInf == [k |-> "inf", v |-> 1]
NInf == [k |-> "inf", v |-> -1]
NaN == [k |-> "nan", v |-> 0]
Norm(n) == IF n > MaxFinite THEN PInf ELSE IF n < -MaxFinite THEN NInf ELSE Fin(n)
Sgn(n) == IF n > 0 THEN 1 ELSE IF n < 0 THEN -1 ELSE 0
Neg(a) == [k |-> a.k, v |-> -a.v]
Add(a, b) ==
    IF a.k = "nan" \/ b.k = "nan" THEN NaN
    ELSE IF a.k = "inf" /\ b.k = "inf" THEN (IF a.v = b.v THEN a ELSE NaN)
    ELSE IF a.k = "inf" THEN a
    ELSE IF b.k = "inf" THEN b
    ELSE Norm(a.v + b.v)
Sub(a, b) == Add(a, Neg(b))
Mul(a, b) ==
    IF a.k = "nan" \/ b.k = "nan" THEN NaN
    ELSE IF a.k = "inf" \/ b.k = "inf"
         THEN (IF a.v = 0 \/ b.v = 0 THEN NaN
               ELSE [k |-> "inf", v |-> Sgn(a.v) * Sgn(b.v)])
    ELSE Norm(a.v * b.v)
\* `a / 2` and `a * 0.35` (k = 7/20).
Half(a) == IF a.k = "fin" THEN Fin(a.v \div 2) ELSE a
TimesK(a) == IF a.k = "fin" THEN Norm((a.v * 7) \div 20) ELSE a
\* `===` on numbers: NaN equals nothing.
NumEq(a, b) == a.k # "nan" /\ b.k # "nan" /\ a = b
IsFinite(a) == a.k = "fin"

getEdgeCurve(sourceNode, targetNode) ==
    LET sx == Add(Fin(sourceNode.x), Half(Fin(sourceNode.width)))
        sy == Add(Fin(sourceNode.y), Half(Fin(sourceNode.height)))
        tx == Add(Fin(targetNode.x), Half(Fin(targetNode.width)))
        ty == Add(Fin(targetNode.y), Half(Fin(targetNode.height)))
        dx == Sub(tx, sx)
    IN [sx |-> sx, sy |-> sy,
        x1 |-> Add(sx, TimesK(dx)), y1 |-> sy,
        x2 |-> Sub(tx, TimesK(dx)), y2 |-> ty,
        tx |-> tx, ty |-> ty]

\* The cubic with the weights written out; omt is 1 - t.
Blend(omt, t, p0, p1, p2, p3) ==
    LET omt2 == Mul(omt, omt)
        omt3 == Mul(omt2, omt)
        t2 == Mul(t, t)
        t3 == Mul(t2, t)
    IN Add(Add(Add(Mul(omt3, p0),
                   Mul(Mul(Mul(Fin(3), omt2), t), p1)),
               Mul(Mul(Mul(Fin(3), omt), t2), p2)),
           Mul(t3, p3))

\* Variant of cubicBezierPoint that takes t for 1 - t.
cubicBezierPoint_Reversed(t, curve) ==
    LET omt == Sub(Fin(1), t)
    IN [x |-> Blend(t, omt, curve.sx, curve.x1, curve.x2, curve.tx),
        y |-> Blend(t, omt, curve.sy, curve.y1, curve.y2, curve.ty)]

cubicBezierPoint(t, curve) ==
    LET omt == Sub(Fin(1), t)
    IN [x |-> Blend(omt, t, curve.sx, curve.x1, curve.x2, curve.tx),
        y |-> Blend(omt, t, curve.sy, curve.y1, curve.y2, curve.ty)]

\* Curves given component by component, and nodes to derive curves from.
CurveXs == {Fin(-3), Fin(2), PInf, NaN}
CurveYs == {Fin(0), Fin(5)}
CurveYControls == {Fin(1), NInf}
Curves == [sx : CurveXs, x1 : CurveXs, x2 : CurveXs, tx : CurveXs,
           sy : CurveYs, y1 : CurveYControls, y2 : CurveYControls, ty : CurveYs]
CurveNodes == {[id |-> 1, x |-> px, y |-> py, width |-> w, height |-> 40] :
                 px \in {-160, 0, 160}, py \in {0, 20}, w \in {0, 40}}
NoCurve == [sx |-> NaN, x1 |-> NaN, x2 |-> NaN, tx |-> NaN,
            sy |-> NaN, y1 |-> NaN, y2 |-> NaN, ty |-> NaN]
NoCurveNode == [id |-> 0, x |-> 0, y |-> 0, width |-> 0, height |-> 0]

BezierInit ==
    /\ RendererIdle
    /\ geoIn \in {[kind |-> "curve", curve |-> c, source |-> NoCurveNode,
                   target |-> NoCurveNode] : c \in Curves}
             \cup {[kind |-> "edge", curve |-> NoCurve, source |-> a, target |-> b] :
                     a \in CurveNodes, b \in CurveNodes}
    /\ geoOut = <<>>
    /\ chat = ChatIdle

\* cubicBezierPoint at t = 0 and t = 1 of a given curve.
CurveEnds ==
    /\ geoOut = <<>> /\ geoIn.kind = "curve"
    /\ geoOut' = <<geoIn.curve, cubicBezierPoint(Fin(0), geoIn.curve),
                   cubicBezierPoint(Fin(1), geoIn.curve)>>
    /\ RendererUntouched
    /\ UNCHANGED <<geoIn, chat>>

\* The first and the last point draw samples on an edge: `previous` before
\* the loop and `next` at i = EDGE_SEGMENTS, where t = i / EDGE_SEGMENTS.
EdgeEnds ==
    /\ geoOut = <<>> /\ geoIn.kind = "edge"
    /\ LET curve == getEdgeCurve(geoIn.source, geoIn.target)
       IN geoOut' = <<curve, cubicBezierPoint(Fin(0), curve),
                      cubicBezierPoint(Fin(EDGE_SEGMENTS \div EDGE_SEGMENTS), curve)>>
    /\ RendererUntouched
    /\ UNCHANGED <<geoIn, chat>>

BezierNext ==
    \/ CurveEnds
    \/ EdgeEnds

BezierSpec == BezierInit /\ [][BezierNext]_vars

\* ------------------------------------------- createNodeMap and edge lookup
\* Node lists in which an id may occur more than once, and one edge.
MaxMapNodes == 3
MapNodes == {[id |-> i, x |-> px, y |-> 0, width |-> 40, height |-> 40] :
               i \in {1, 2}, px \in {-40, 0, 40}}
MapNodeLists == UNION {[1..n -> MapNodes] : n \in 0..MaxMapNodes}
MapEdges == [source : {1, 2, 9}, target : {1, 2}]

\* `nodeMap.get(id)`.
MapGet(map, key) == IF key \in DOMAIN map THEN map[key] ELSE Undefined

NodeMapInit ==
    /\ RendererIdle
    /\ geoIn \in [nodes : MapNodeLists, edge : MapEdges]
    /\ geoOut = <<>>
    /\ chat = ChatIdle

\* The scene build of draw for a scene of one edge: the map, the two
\* endpoint lookups, the curve when both resolve, and the floats appended
\* to the two vertex lists.
BuildScene ==
    /\ geoOut = <<>>
    /\ LET nodeMap == createNodeMap(geoIn.nodes)
           sourceNode == MapGet(nodeMap, geoIn.edge.source)
           targetNode == MapGet(nodeMap, geoIn.edge.target)
       IN geoOut' = <<[nodeMap |-> nodeMap,
                       sourceNode |-> sourceNode,
                       targetNode |-> targetNode,
                       curve |-> IF sourceNode = Undefined \/ targetNode = Undefined
                                 THEN Undefined
                                 ELSE getEdgeCurve(sourceNode, targetNode),
                       edgeFloats |-> EdgeVertexFloats(<<geoIn.edge>>, nodeMap),
                       nodeFloats |-> NodeVertexFloats(geoIn.nodes)]>>
    /\ RendererUntouched
    /\ UNCHANGED <<geoIn, chat>>

NodeMapNext == BuildScene

NodeMapSpec == NodeMapInit /\ [][NodeMapNext]_vars

\* ---------------------------------------------------------- chat controller
\* useLLMChatController and the Chat input that calls it.  App, the root
\* component, holds the controller, so it stays mounted.  The progress
\* reports of the engine load and the planner's actions on the graph are
\* left out.
MaxSends == 2
RawInputs == {<<>>, <<" ">>, <<"h", "i">>, <<" ", "g", "o", " ">>}
KeyCodes == {"Enter", "KeyA"}
ReplyOutcomes == {"parsed", "unparsed", "noMessage", "executeThrows", "rejected"}
AssistantContent == <<"{", "}">>
ParsedReply == <<"o", "k">>

\* String.prototype.trim on a sequence of characters.
RECURSIVE TrimStart(_)
TrimStart(s) == IF s # <<>> /\ Head(s) = " " THEN TrimStart(Tail(s)) ELSE s
RECURSIVE TrimEnd(_)
TrimEnd(s) ==
    IF s # <<>> /\ s[Len(s)] = " " THEN TrimEnd(SubSeq(s, 1, Len(s) - 1)) ELSE s
Trim(s) == TrimEnd(TrimStart(s))

Call(c, what) == [c EXCEPT !.calls = Append(@, what)]

\* startLLM up to its await.
startLLM(c) == [c EXCEPT !.engineStatus = "loading", !.errorMessage = "null"]

\* startLLM after createWorkerEngine settled.
engineLoaded(c, ok) ==
    IF ok THEN [c EXCEPT !.engine = "engine", !.engineStatus = "ready"]
    ELSE [c EXCEPT !.engineStatus = "error",
                   !.errorMessage = "Failed to initialize LLM engine."]

\* onMessageSend up to its await.
onMessageSend(c, rawInput) ==
    LET userInput == Trim(rawInput)
        c0 == Call(c, <<"onMessageSend", rawInput>>)
    IN  IF userInput = <<>> THEN c0
        ELSE IF c0.engineStatus # "ready" \/ c0.engine = "null" THEN c0
        ELSE LET nextHistory == Append(c0.historyRef, [role |-> "user", content |-> userInput])
             IN [c0 EXCEPT !.loading = TRUE,
                           !.historyRef = nextHistory,
                           !.history = nextHistory,
                           !.displayMessages =
                               Append(@, [role |-> "user", content |-> userInput]),
                           !.request = "pending",
                           !.sent = @ + 1]

\* The try block after the await, without the finally.
afterReply(c, outcome) ==
    IF outcome \in {"rejected", "noMessage"} THEN c
    ELSE LET updatedHistory ==
                 Append(c.historyRef, [role |-> "assistant", content |-> AssistantContent])
             c1 == [c EXCEPT !.historyRef = updatedHistory, !.history = updatedHistory]
         IN  IF outcome = "executeThrows" THEN c1
             ELSE [c1 EXCEPT !.displayMessages =
                       Append(@, [role |-> "assistant",
                                  content |-> IF outcome = "parsed" THEN ParsedReply
                                              ELSE AssistantContent])]

\* Variant of replySettled whose early return leaves without the finally.
replySettled_ReturnSkipsFinally(c, outcome) ==
    LET c1 == [afterReply(Call(c, <<"settled", outcome>>), outcome)
                  EXCEPT !.request = "none"]
    IN IF outcome = "noMessage" THEN c1 ELSE [c1 EXCEPT !.loading = FALSE]

\* onMessageSend from the await on: try, catch and finally.
replySettled(c, outcome) ==
    [afterReply(Call(c, <<"settled", outcome>>), outcome)
        EXCEPT !.request = "none", !.loading = FALSE]

\* Chat: the input is disabled while a reply is awaited or no engine is
\* ready, and Enter sends the typed value only when it is not.
inputDisabled(c) == c.loading \/ c.engineStatus # "ready"
handleSendMessage(c, code, value) ==
    LET c0 == Call(c, <<"keyup", code>>)
    IN IF code = "Enter" /\ ~inputDisabled(c) THEN onMessageSend(c0, value) ELSE c0

Fresh(c) == [c EXCEPT !.calls = <<>>]

ChatInit ==
    /\ RendererIdle
    /\ geoIn = <<>>
    /\ geoOut = <<>>
    /\ chat = ChatIdle

\* The mount effect of the controller.
ChatMount ==
    /\ chat.engineStatus = "idle"
    /\ chat' = startLLM(Fresh(chat))
    /\ RendererUntouched
    /\ UNCHANGED <<geoIn, geoOut>>

\* createWorkerEngine resolves or rejects.
EngineSettles(ok) ==
    /\ chat.engineStatus = "loading"
    /\ chat' = engineLoaded(Fresh(chat), ok)
    /\ RendererUntouched
    /\ UNCHANGED <<geoIn, geoOut>>

\* A key is released in the chat input holding `value`.
KeyUp(code, value) ==
    /\ chat.engineStatus # "idle"
    /\ chat.sent < MaxSends
    /\ chat' = handleSendMessage(Fresh(chat), code, value)
    /\ RendererUntouched
    /\ UNCHANGED <<geoIn, geoOut>>

\* The completion request settles.
ReplySettles(outcome) ==
    /\ chat.request = "pending"
    /\ chat' = replySettled(Fresh(chat), outcome)
    /\ RendererUntouched
    /\ UNCHANGED <<geoIn, geoOut>>

ChatNext ==
    \/ ChatMount
    \/ \E ok \in BOOLEAN : EngineSettles(ok)
    \/ \E code \in KeyCodes, value \in RawInputs : KeyUp(code, value)
    \/ \E outcome \in ReplyOutcomes : ReplySettles(outcome)

ChatSpec == ChatInit /\ [][ChatNext]_vars

\* Every completion request settles.
ChatFairSpec == ChatSpec /\ WF_vars(\E outcome \in ReplyOutcomes : ReplySettles(outcome))

\* ================================================================ properties
OpNames(log) == {log[i][1] : i \in DOMAIN log}
IsPrefix(a, b) == Len(a) <= Len(b) /\ \A i \in DOMAIN a : a[i] = b[i]
Last(log) == log[Len(log)]

\* The milestones of a successful initialize(), in program order.
InitOrder == <<"requestAdapter", "adapter", "requestDevice", "device", "context",
               "configure", "runtime", "ready">>
UpTo(n) == SubSeq(InitOrder, 1, n)

\* C1: when the teardown has run while initialize() is suspended at the
\* adapter or the device request, the step that resumes initialize() leaves
\* runtimeRef null, leaves the status as it was, calls setRuntimeError not at
\* all, and performs no size sync and no draw.
C1_AbandonedInitTouchesNothing ==
    [][(disposed /\ pc \in {"awaitAdapter", "awaitDevice"})
        => /\ runtimeRef' = NullRuntime
           /\ runtimeError' = runtimeError
           /\ OpNames(ops') \cap {"setRuntimeError", "syncCanvasSize", "draw",
                                   "writeUniform", "submit"} = {}]_vars

\* Witness of C1: the teardown ran during the device request, the device
\* arrived afterwards and initialize() ended without going further.
C1_Witness ==
    /\ disposed /\ pc = "done"
    /\ initLog = UpTo(4)
    /\ runtimeError = NoStatus

\* C2 (as claimed): once the component is torn down and initialize() has
\* finished, every device obtained from requestDevice has been destroyed.
C2_EveryDeviceReleased ==
    (mounted = "gone" /\ pc = "done") => devices \subseteq destroyed

\* C3: the teardown step destroys exactly the buffers, uniform buffer and
\* device that the refs hold (nothing is called for a ref that holds none),
\* and leaves both vertex-buffer records empty and runtimeRef null, from
\* every state of the initialization.
HeldHandles == {edgeBuffer.buffer, nodeBuffer.buffer, runtimeRef.uniformBuffer,
                runtimeRef.device} \ {NoHandle}
C3_TeardownReleasesAndResets ==
    [][(mounted = "yes" /\ mounted' = "gone")
        => /\ edgeBuffer' = EmptyVertexBuffer
           /\ nodeBuffer' = EmptyVertexBuffer
           /\ runtimeRef' = NullRuntime
           /\ destroyed' = destroyed \cup HeldHandles
           /\ Len(ops') = Cardinality(HeldHandles)]_vars

\* Witness of C3: a teardown from the ready state with both vertex buffers
\* allocated has destroyed the two buffers, the uniform buffer and the device.
C3_Witness ==
    /\ mounted = "gone"
    /\ Len(ops) = 4
    /\ devices \subseteq destroyed /\ devices # {}

\* C4: the milestones of initialize() occur only in the order adapter
\* request, adapter, device request, device, context, configure, runtime,
\* and the runtime is installed only when all of them have occurred.
C4_InitializationOrder ==
    /\ IsPrefix(initLog, InitOrder)
    /\ (pc = "idle" \/ pc = "noInit") <=> (initLog = <<>>)
    /\ pc = "awaitAdapter" => initLog = UpTo(1)
    /\ pc = "awaitDevice" => initLog = UpTo(3)
    /\ runtimeRef # NullRuntime => IsPrefix(UpTo(7), initLog)

\* Witness of C4: the runtime is installed.
C4_Witness == runtimeRef # NullRuntime /\ initLog = InitOrder

\* C5: once a failure status is shown, no step issues an adapter or device
\* request, installs a runtime, or changes the status.
C5_FailedIsTerminal ==
    [][statusText # NoStatus
        => /\ statusText' = statusText
           /\ runtimeError' = runtimeError
           /\ (runtimeRef' # NullRuntime => runtimeRef' = runtimeRef)
           /\ OpNames(ops') \cap {"requestAdapter", "requestDevice"} = {}]_vars

\* Witness of C5: a failure status is set and a later handler has run with
\* the component still mounted.
C5_Witness ==
    /\ runtimeError # NoStatus /\ mounted = "yes"
    /\ sceneRef # InitialScene /\ ops = <<>>

\* C6 (as claimed): when navigator yields no usable gpu object the component
\* shows the capability-unavailable status and requests no adapter.
C6_NoGpuReportsUnavailable ==
    (mounted # "no" /\ resolveGpuNavigator(navGpu) = "null")
        => statusText = CapabilityUnavailable /\ initLog = <<>>

\* C7 (as claimed): when the adapter request rejected or gave no adapter and
\* the component is still mounted, the status is adapter-unavailable.
C7_AdapterFailureStatus ==
    (mounted = "yes" /\ pc = "done" /\ initLog = UpTo(1))
        => runtimeError = AdapterUnavailable

\* C8 (as claimed): when getContext gave no context or configure threw and
\* the component is still mounted, the status is surface-unavailable.
C8_SurfaceFailureStatus ==
    (mounted = "yes" /\ pc = "done" /\ initLog \in {UpTo(4), UpTo(5)})
        => runtimeError = SurfaceUnavailable

\* C9: nothing thrown or rejected during initialize() leaves it; when
\* initialize() has ended without reaching its end and the component is
\* still mounted a status is set; and a rejected device request gives the
\* device-initialization-failed status with no runtime installed.
C9_FailuresAreCaught ==
    /\ ~escaped
    /\ (mounted = "yes" /\ pc = "done" /\ initLog # InitOrder) => runtimeError # NoStatus
    /\ (mounted = "yes" /\ pc = "done" /\ initLog = UpTo(3))
        => runtimeError = DeviceInitFailed /\ runtimeRef = NullRuntime

\* Witness of C9: the device request rejected with the component mounted.
C9_Witness == mounted = "yes" /\ pc = "done" /\ initLog = UpTo(3)

\* C10 (as claimed): a runtime is never installed while a failure status is
\* set.
C10_NoPartialSuccess == ~(runtimeRef # NullRuntime /\ runtimeError # NoStatus)


\* ----------------------------------------------------------- frame helpers
NamesOf(log) == [i \in DOMAIN log |-> log[i][1]]
IsFrameOp(n) == n \in {"installRuntime", "syncCanvasSize", "draw", "submit"}
DrawOps(log) == {i \in DOMAIN log : log[i][1] = "draw"}
\* The state machine's ready state: a runtime and no failure status.
RendererReady == runtimeRef # NullRuntime /\ runtimeError = NoStatus
\* A step of the scene effect or of the resize path, the component staying
\* mounted and initialize() staying where it is.
HandlerStep == mounted = "yes" /\ mounted' = "yes" /\ pc' = pc

\* C11 (as claimed): while the renderer is not ready, a scene or resize
\* handler makes no call at all and leaves the buffer records, the set of
\* destroyed objects, the surface size and the stored pixel ratio unchanged.
C11_NotReadyHandlersAreNoOps ==
    [][(~RendererReady /\ HandlerStep)
        => /\ ops' = <<>>
           /\ edgeBuffer' = edgeBuffer /\ nodeBuffer' = nodeBuffer
           /\ nextHandle' = nextHandle /\ destroyed' = destroyed
           /\ canvasW' = canvasW /\ canvasH' = canvasH
           /\ dprRef' = dprRef /\ uniformRes' = uniformRes]_vars

\* C12: the step that completes initialize() installs the runtime, then
\* syncs the size once, then draws and submits once, in that order, and the
\* draw reads the snapshot that sceneRef holds at that step.
C12_InitialFrameSequence ==
    [][(pc = "awaitDevice" /\ initLog' = InitOrder)
        => /\ SelectSeq(NamesOf(ops'), IsFrameOp)
                = <<"installRuntime", "syncCanvasSize", "draw", "submit">>
           /\ \A i \in DrawOps(ops') :
                /\ ops'[i][2] = sceneRef.nodes
                /\ ops'[i][3] = sceneRef.edges
                /\ ops'[i][4] = sceneRef.viewport
           /\ sceneRef' = sceneRef]_vars

\* Witness of C12: initialize() completed with a snapshot published after
\* the mount, and the frame it drew has that snapshot's vertex counts.
C12_Witness ==
    /\ initLog = InitOrder /\ "installRuntime" \in OpNames(ops)
    /\ sceneRef = MkScene(2, MaxEdges, 0, 0)
    /\ edgeBuffer.vertexCount = MaxEdges * EDGE_SEGMENTS * 2

\* C13: every draw of every step reads nodes, edges and viewport of one
\* snapshot, the one sceneRef holds when the step ends (the latest
\* published).
C13_DrawReadsLatestSnapshot ==
    [][\A i \in DrawOps(ops') :
            /\ ops'[i][2] = sceneRef'.nodes
            /\ ops'[i][3] = sceneRef'.edges
            /\ ops'[i][4] = sceneRef'.viewport]_vars

\* Witness of C13: a resize redraw after a publication that changed the
\* viewport and the edges.
C13_Witness ==
    /\ sceneRef = MkScene(2, 1, 1, 5)
    /\ DrawOps(ops) # {} /\ "syncCanvasSize" \in OpNames(ops)
    /\ initLog = InitOrder /\ ~("installRuntime" \in OpNames(ops))


\* ---------------------------------------------------------- buffer helpers
\* Bytes the upload of a step asked for, from the vertex count it stored.
RequiredBytes(after) == after.vertexCount * 24
OpsMatching(log, name, handle) ==
    {i \in DOMAIN log : log[i][1] = name /\ log[i][2] = handle}

\* One buffer record over a step that is not the teardown.
GrowthOk(b, after) ==
    /\ after.capacityBytes >= b.capacityBytes
    /\ (b.buffer # NoHandle /\ RequiredBytes(after) <= b.capacityBytes)
        => after = [b EXCEPT !.vertexCount = after.vertexCount]
    /\ RequiredBytes(after) > b.capacityBytes
        => /\ after.capacityBytes >= RequiredBytes(after)
           /\ after.buffer \notin {b.buffer, NoHandle}

\* C14: while the component is mounted the capacity of each vertex buffer
\* never decreases; an upload that fits leaves handle and capacity as they
\* were; an upload that does not fit moves to a new buffer of at least the
\* required size.
C14_CapacityMonotonic ==
    [][mounted' = "yes"
        => GrowthOk(edgeBuffer, edgeBuffer') /\ GrowthOk(nodeBuffer, nodeBuffer')]_vars

\* Witness of C14: the edge buffer has grown past its first capacity and now
\* holds a single edge in the larger buffer.
C14_Witness ==
    /\ mounted = "yes"
    /\ edgeBuffer.capacityBytes > 4096
    /\ edgeBuffer.vertexCount = EDGE_SEGMENTS * 2

\* The reallocation of one buffer record in a step with log `log`.
ReallocOk(b, after, log, gone, goneAfter) ==
    LET req == RequiredBytes(after)
        twice == 2 * b.capacityBytes
        grown == IF req >= twice THEN req ELSE twice
    IN  /\ after.capacityBytes = (IF grown >= 4096 THEN grown ELSE 4096)
        /\ after.buffer \notin {b.buffer, NoHandle}
        /\ b.buffer # NoHandle
            => /\ Cardinality(OpsMatching(log, "destroyBuffer", b.buffer)) = 1
               /\ b.buffer \notin gone /\ b.buffer \in goneAfter
        /\ \E c \in OpsMatching(log, "createBuffer", after.buffer) :
             /\ log[c][3] = after.capacityBytes
             /\ \E w \in OpsMatching(log, "writeBuffer", after.buffer) :
                  /\ w > c /\ log[w][3] = 0 /\ log[w][4] = req
                  /\ OpsMatching(log, "writeBuffer", after.buffer) = {w}

NeedsRealloc(b, after, log) ==
    /\ DrawOps(log) # {}
    /\ RequiredBytes(after) > 0
    /\ (b.buffer = NoHandle \/ RequiredBytes(after) > b.capacityBytes)

\* C15: an upload that needs more bytes than the capacity, or finds no
\* buffer, destroys the old buffer once if there is one, creates a buffer of
\* exactly max(4096, max(required, 2 * old capacity)) bytes and writes the
\* whole payload to it at offset 0.
C15_ReallocationPolicy ==
    [][/\ NeedsRealloc(edgeBuffer, edgeBuffer', ops')
            => ReallocOk(edgeBuffer, edgeBuffer', ops', destroyed, destroyed')
       /\ NeedsRealloc(nodeBuffer, nodeBuffer', ops')
            => ReallocOk(nodeBuffer, nodeBuffer', ops', destroyed, destroyed')]_vars

\* Witness of C15: the edge buffer was reallocated in the last step, its old
\* buffer destroyed, and the required size exceeded twice the old capacity.
C15_Witness ==
    /\ edgeBuffer.buffer # NoHandle
    /\ OpsMatching(ops, "createBuffer", edgeBuffer.buffer) # {}
    /\ "destroyBuffer" \in OpNames(ops)
    /\ edgeBuffer.capacityBytes = RequiredBytes(edgeBuffer)
    /\ edgeBuffer.capacityBytes > 2 * 4096

\* C16: after every draw the node buffer counts 6 vertices for each entry of
\* the node list and the edge buffer 56 for each edge whose source and
\* target are ids of the node list; other edges add nothing and the draw
\* still runs to its submit.
ResolvableEdges(scene) ==
    {i \in DOMAIN scene.edges :
        /\ \E n \in DOMAIN scene.nodes : scene.nodes[n].id = scene.edges[i].source
        /\ \E n \in DOMAIN scene.nodes : scene.nodes[n].id = scene.edges[i].target}
C16_VertexCounts ==
    [][DrawOps(ops') # {}
        => /\ nodeBuffer'.vertexCount = 6 * Len(sceneRef'.nodes)
           /\ edgeBuffer'.vertexCount = 56 * Cardinality(ResolvableEdges(sceneRef'))
           /\ (HandlerStep => "submit" \in OpNames(ops'))]_vars

\* Witness of C16: a frame of two nodes, one edge between them and one edge
\* to a missing node.
C16_Witness ==
    /\ sceneRef = MkScene(2, 1, 1, 5) /\ "submit" \in OpNames(ops)
    /\ nodeBuffer.vertexCount = 12 /\ edgeBuffer.vertexCount = 56


\* C17: a draw that finds a surface of zero width or zero height makes no
\* call at all: nothing is uploaded, neither buffer record changes, no pass
\* is begun and nothing is submitted.
C17_ZeroAreaDrawSkipped ==
    [][(canvasW = 0 \/ canvasH = 0)
        => /\ ops' = <<>>
           /\ edgeBuffer' = edgeBuffer /\ nodeBuffer' = nodeBuffer
           /\ nextHandle' = nextHandle /\ destroyed' = destroyed]_vars

\* Witness of C17: a scene of MaxEdges edges was published to a ready
\* renderer whose surface has a width but no height, and nothing was
\* uploaded for it.
C17_Witness ==
    /\ canvasW > 0 /\ canvasH = 0
    /\ sceneRef = MkScene(2, MaxEdges, 0, 0)
    /\ runtimeRef # NullRuntime
    /\ edgeBuffer = EmptyVertexBuffer /\ ops = <<>>

\* C18: a draw that reaches its render pass issues, between setBindGroup and
\* the end of the pass, the node draw call exactly when the node vertex count
\* is positive and then the edge draw call exactly when the edge vertex count
\* is positive, each with its own buffer and count, and ends with one submit.
IsPassOp(o) == o[1] \in {"beginRenderPass", "setBindGroup", "drawNodes", "drawEdges",
                         "endPass", "submit"}
ExpectedPass(nb, eb, device) ==
    <<  <<"beginRenderPass">>, <<"setBindGroup">> >>
    \o (IF nb.vertexCount > 0 THEN << <<"drawNodes", nb.buffer, nb.vertexCount>> >> ELSE <<>>)
    \o (IF eb.vertexCount > 0 THEN << <<"drawEdges", eb.buffer, eb.vertexCount>> >> ELSE <<>>)
    \o << <<"endPass">>, <<"submit", device>> >>
C18_PassDrawCalls ==
    [][("beginRenderPass" \in OpNames(ops') \/ (HandlerStep /\ DrawOps(ops') # {}))
        => SelectSeq(ops', IsPassOp)
             = ExpectedPass(nodeBuffer', edgeBuffer', runtimeRef'.device)]_vars

\* Witness of C18: a frame with node vertices and no edge vertices was
\* submitted with the node draw call alone.
C18_Witness ==
    /\ "drawNodes" \in OpNames(ops) /\ ~("drawEdges" \in OpNames(ops))
    /\ "submit" \in OpNames(ops)
    /\ nodeBuffer.vertexCount > 0 /\ edgeBuffer.vertexCount = 0

\* C19: a delivered resize notification in the ready state leaves the canvas
\* at max(1, floor(box * ratio)) on each axis (a ratio of 0 or none counting
\* as 1), resizes the canvas and writes the new resolution to the uniform
\* buffer when the size changed, draws and submits exactly once, and uses up
\* one notification only.
PixelSize(rect, ratio) ==
    LET r == IF ratio = 0 THEN 2 ELSE ratio
    IN IF rect * r >= 2 THEN (rect * r) \div 2 ELSE 1
C19_ResizeHandling ==
    [][(RendererReady /\ mounted' = "yes" /\ pendingResize' < pendingResize)
        => LET w == PixelSize(rectW, winDpr)
               h == PixelSize(rectH, winDpr)
           IN  /\ canvasW' = w /\ canvasH' = h
               /\ (canvasW # w \/ canvasH # h)
                    => /\ \E i \in DOMAIN ops' : ops'[i] = <<"resizeCanvas", w, h>>
                       /\ \E i \in DOMAIN ops' :
                            ops'[i] = <<"writeUniform", runtimeRef.uniformBuffer, w, h>>
                       /\ uniformRes' = <<w, h>>
               /\ Cardinality(DrawOps(ops')) = 1
               /\ Cardinality({i \in DOMAIN ops' : ops'[i][1] = "submit"}) = 1
               /\ pendingResize' = pendingResize - 1]_vars

\* Witness of C19: the first of two queued notifications was handled: the
\* box had shrunk to nothing, the canvas went to 1 x 1 and one frame was
\* drawn, the second notification still pending.
C19_Witness ==
    /\ pendingResize = 1 /\ rectW = 0 /\ rectH = 0
    /\ canvasW = 1 /\ canvasH = 1
    /\ "resizeCanvas" \in OpNames(ops) /\ "submit" \in OpNames(ops)


\* C20: getTopNodeAtPoint returns the node of highest index whose rectangle,
\* all four edges included, contains the point, and returns nothing exactly
\* when no node contains it.
Containing(nodes, px, py) ==
    {i \in DOMAIN nodes : /\ nodes[i].x <= px /\ px <= nodes[i].x + nodes[i].width
                          /\ nodes[i].y <= py /\ py <= nodes[i].y + nodes[i].height}
C20_TopNodeAtPoint ==
    geoOut # <<>>
      => LET hits == Containing(geoIn.nodes, geoIn.x, geoIn.y)
         IN  IF hits = {} THEN geoOut[1] = Undefined
             ELSE /\ geoOut[1] # Undefined
                  /\ geoOut[1] = geoIn.nodes[CHOOSE i \in hits : \A j \in hits : j <= i]

\* Witness of C20: two different nodes A then B both hold the point, which
\* lies on B's right and bottom edges, and B was returned.
C20_Witness ==
    /\ geoOut # <<>> /\ Len(geoIn.nodes) = 2
    /\ Containing(geoIn.nodes, geoIn.x, geoIn.y) = {1, 2}
    /\ geoIn.x = geoIn.nodes[2].x + geoIn.nodes[2].width
    /\ geoIn.y = geoIn.nodes[2].y + geoIn.nodes[2].height
    /\ geoOut[1] = geoIn.nodes[2] /\ geoOut[1] # geoIn.nodes[1]


\* C21: getNodesBounds returns nothing for the empty list; otherwise minX and
\* minY are the least node position, maxX and maxY the greatest position plus
\* extent, width and height their differences and the centre their midpoint,
\* so every node rectangle lies within the bounds, and the list taken in
\* reverse order gives the same bounds.
ReverseSeq(s) == [i \in 1..Len(s) |-> s[Len(s) + 1 - i]]
Least(S) == CHOOSE v \in S : \A u \in S : v <= u
Greatest(S) == CHOOSE v \in S : \A u \in S : u <= v
C21_NodesBounds ==
    geoOut # <<>>
      => LET nodes == geoIn.nodes
             b == geoOut[1]
             I == DOMAIN nodes
         IN  IF nodes = <<>> THEN b = Undefined
             ELSE /\ b # Undefined
                  /\ b.minX = Least({nodes[i].x : i \in I})
                  /\ b.minY = Least({nodes[i].y : i \in I})
                  /\ b.maxX = Greatest({nodes[i].x + nodes[i].width : i \in I})
                  /\ b.maxY = Greatest({nodes[i].y + nodes[i].height : i \in I})
                  /\ b.width = b.maxX - b.minX /\ b.height = b.maxY - b.minY
                  /\ b.centerX2 = b.minX + b.maxX /\ b.centerY2 = b.minY + b.maxY
                  /\ \A i \in I : /\ b.minX <= nodes[i].x
                                  /\ nodes[i].x + nodes[i].width <= b.maxX
                                  /\ b.minY <= nodes[i].y
                                  /\ nodes[i].y + nodes[i].height <= b.maxY
                  /\ getNodesBounds(ReverseSeq(nodes)) = b

\* Witness of C21: bounds were taken of three nodes of which the second
\* reaches furthest right and the third furthest left.
C21_Witness ==
    /\ geoOut # <<>> /\ Len(geoIn.nodes) = 3
    /\ geoOut[1].maxX = geoIn.nodes[2].x + geoIn.nodes[2].width
    /\ geoOut[1].maxX > geoIn.nodes[1].x + geoIn.nodes[1].width
    /\ geoOut[1].maxX > geoIn.nodes[3].x + geoIn.nodes[3].width
    /\ geoOut[1].minX = geoIn.nodes[3].x
    /\ geoOut[1].minX < geoIn.nodes[1].x /\ geoOut[1].minX < geoIn.nodes[2].x


\* C22 as stated: for any curve cubicBezierPoint(0, curve) is exactly
\* (sx, sy) and cubicBezierPoint(1, curve) exactly (tx, ty), so the first
\* sample of a drawn edge is the source node's centre and the last the
\* target node's centre.
NodeCentre(node) == [x |-> Fin(node.x + node.width \div 2),
                     y |-> Fin(node.y + node.height \div 2)]
SamePoint(p, qx, qy) == NumEq(p.x, qx) /\ NumEq(p.y, qy)
EndsMeet ==
    /\ SamePoint(geoOut[2], geoOut[1].sx, geoOut[1].sy)
    /\ SamePoint(geoOut[3], geoOut[1].tx, geoOut[1].ty)
    /\ geoIn.kind = "edge"
         => /\ SamePoint(geoOut[2], NodeCentre(geoIn.source).x, NodeCentre(geoIn.source).y)
            /\ SamePoint(geoOut[3], NodeCentre(geoIn.target).x, NodeCentre(geoIn.target).y)
C22_EndpointsExact == geoOut # <<>> => EndsMeet

\* C22 amended: the same for every curve whose eight components are finite
\* numbers.
FiniteCurve(c) ==
    /\ IsFinite(c.sx) /\ IsFinite(c.x1) /\ IsFinite(c.x2) /\ IsFinite(c.tx)
    /\ IsFinite(c.sy) /\ IsFinite(c.y1) /\ IsFinite(c.y2) /\ IsFinite(c.ty)
C22_EndpointsExactWhenFinite == (geoOut # <<>> /\ FiniteCurve(geoOut[1])) => EndsMeet

\* Witness of C22: an edge between two nodes with different centres was
\* sampled on a finite curve whose control points differ from its ends, and
\* the first sample is the source's centre.
C22_Witness ==
    /\ geoOut # <<>> /\ geoIn.kind = "edge" /\ FiniteCurve(geoOut[1])
    /\ geoOut[1].x1 # geoOut[1].sx /\ geoOut[1].sx # geoOut[1].tx
    /\ geoOut[1].sy # geoOut[1].ty
    /\ geoOut[2] = NodeCentre(geoIn.source)
    /\ geoOut[3] = NodeCentre(geoIn.target)


\* C23: createNodeMap has exactly the ids of the node list as keys and maps
\* each to the last node of the list carrying it; an edge is resolved, and
\* its curve started and ended, at the last node carrying each endpoint id;
\* and every entry of the list, duplicates included, gives its six vertices.
NodeIdsOf(nodes) == {nodes[i].id : i \in DOMAIN nodes}
LastIndexOfId(nodes, k) ==
    CHOOSE i \in DOMAIN nodes :
        /\ nodes[i].id = k
        /\ \A j \in DOMAIN nodes : nodes[j].id = k => j <= i
C23_NodeMapLastWins ==
    geoOut # <<>>
      => LET nodes == geoIn.nodes
             out == geoOut[1]
             ids == NodeIdsOf(nodes)
         IN  /\ DOMAIN out.nodeMap = ids
             /\ \A k \in ids : out.nodeMap[k] = nodes[LastIndexOfId(nodes, k)]
             /\ (geoIn.edge.source \in ids /\ geoIn.edge.target \in ids)
                  => LET src == nodes[LastIndexOfId(nodes, geoIn.edge.source)]
                         tgt == nodes[LastIndexOfId(nodes, geoIn.edge.target)]
                     IN  /\ out.sourceNode = src /\ out.targetNode = tgt
                         /\ out.curve.sx = NodeCentre(src).x
                         /\ out.curve.tx = NodeCentre(tgt).x
                         /\ out.edgeFloats = EDGE_SEGMENTS * 2 * FLOATS_PER_VERTEX
             /\ out.nodeFloats = Len(nodes) * 6 * FLOATS_PER_VERTEX

\* Witness of C23: the list holds the source id three times at three
\* different places, the edge was drawn from the last of them, and three
\* quads were appended.
C23_Witness ==
    /\ geoOut # <<>> /\ Len(geoIn.nodes) = 3
    /\ \A i \in 1..3 : geoIn.nodes[i].id = geoIn.edge.source
    /\ geoIn.edge.target = geoIn.edge.source
    /\ geoIn.nodes[1].x # geoIn.nodes[3].x /\ geoIn.nodes[2].x # geoIn.nodes[3].x
    /\ geoOut[1].sourceNode = geoIn.nodes[3]
    /\ geoOut[1].curve.sx = Fin(geoIn.nodes[3].x + 20)
    /\ geoOut[1].nodeFloats = 3 * 6 * FLOATS_PER_VERTEX


\* C24: each vertex-buffer record with a positive vertex count has a buffer
\* whose capacity holds vertexCount * 24 bytes; a draw whose payload for a
\* buffer is empty sets that count to 0 and keeps handle and capacity; and
\* every draw call of a frame covers exactly the vertices uploaded for that
\* frame, within the capacity of its buffer.
BufferFits(b) ==
    b.vertexCount > 0 => (b.buffer # NoHandle /\ b.vertexCount * 24 <= b.capacityBytes)
PayloadKept(b, after, count) ==
    /\ after.vertexCount = count
    /\ count = 0 => (after.buffer = b.buffer /\ after.capacityBytes = b.capacityBytes)
DrawCallsWithin(log, name, after, count) ==
    \A i \in DOMAIN log :
        log[i][1] = name
          => /\ log[i] = <<name, after.buffer, count>>
             /\ after.buffer # NoHandle
             /\ count * 24 <= after.capacityBytes
C24_DrawStaysInsideBuffer ==
    /\ [](BufferFits(edgeBuffer) /\ BufferFits(nodeBuffer))
    /\ [][DrawOps(ops') # {}
           => LET nodeCount == 6 * Len(sceneRef'.nodes)
                  edgeCount == 56 * Cardinality(ResolvableEdges(sceneRef'))
              IN  /\ PayloadKept(nodeBuffer, nodeBuffer', nodeCount)
                  /\ PayloadKept(edgeBuffer, edgeBuffer', edgeCount)
                  /\ DrawCallsWithin(ops', "drawNodes", nodeBuffer', nodeCount)
                  /\ DrawCallsWithin(ops', "drawEdges", edgeBuffer', edgeCount)]_vars

\* Witness of C24: a frame without edges was submitted while the edge buffer
\* of an earlier frame is still allocated; its count is 0 and no edge draw
\* call was made.
C24_Witness ==
    /\ edgeBuffer.buffer # NoHandle /\ edgeBuffer.vertexCount = 0
    /\ "submit" \in OpNames(ops) /\ "drawNodes" \in OpNames(ops)
    /\ ~("drawEdges" \in OpNames(ops))

\* C25: no call that writes to, draws from or submits to a GPU object is
\* made after that object's destroy, whether the destroy happened in an
\* earlier step or earlier in the same handler; and a frame is only built
\* on a device that has not been destroyed.
IsDestroyOp(o) == o[1] \in {"destroyBuffer", "destroyUniformBuffer", "destroyDevice"}
IsUseOp(o) == o[1] \in {"writeBuffer", "writeUniform", "drawNodes", "drawEdges",
                        "submit", "configure"}
DestroyedBefore(log, j) == {log[i][2] : i \in {n \in 1..(j - 1) : IsDestroyOp(log[n])}}
C25_NoUseAfterDestroy ==
    [][/\ \A j \in DOMAIN ops' :
            IsUseOp(ops'[j]) => ops'[j][2] \notin (destroyed \cup DestroyedBefore(ops', j))
       /\ destroyed' = destroyed \cup DestroyedBefore(ops', Len(ops') + 1)
       /\ DrawOps(ops') # {} => runtimeRef'.device \notin destroyed']_vars

\* Witness of C25: a draw destroyed a vertex buffer, wrote the payload to
\* its replacement and drew from the replacement.
C25_Witness ==
    /\ mounted = "yes" /\ destroyed # {}
    /\ "destroyBuffer" \in OpNames(ops)
    /\ OpsMatching(ops, "writeBuffer", edgeBuffer.buffer) # {}
    /\ OpsMatching(ops, "drawEdges", edgeBuffer.buffer) # {}
    /\ edgeBuffer.buffer \notin destroyed


\* C26: whenever a command buffer is submitted, the resolution last written
\* to the uniform buffer is the canvas's pixel width and height at that
\* moment, and both are at least 1.
C26_UniformMatchesSurface ==
    [][(\E i \in DOMAIN ops' : ops'[i][1] = "submit")
        => /\ uniformRes' = <<canvasW', canvasH'>>
           /\ canvasW' >= 1 /\ canvasH' >= 1]_vars


\* C27: a call of onMessageSend whose trimmed input is not blank, with the
\* engine ready and present, sets loading; a call that fails a guard leaves
\* the controller's state as it was; the step in which the completion
\* request settles clears loading, whatever the outcome, and loading is in
\* fact cleared eventually; and while loading is set a key in the chat input
\* starts no send.
NonBlank(raw) == \E i \in DOMAIN raw : raw[i] # " "
SendCalls(log) == {i \in DOMAIN log : log[i][1] = "onMessageSend"}
SameChatState(c, d) == [c EXCEPT !.calls = <<>>] = [d EXCEPT !.calls = <<>>]
C27_LoadingBrackets ==
    /\ [][\A i \in SendCalls(chat'.calls) :
            IF /\ NonBlank(chat'.calls[i][2])
               /\ chat.engineStatus = "ready" /\ chat.engine # "null"
            THEN chat'.loading /\ chat'.request = "pending" /\ chat'.sent = chat.sent + 1
            ELSE SameChatState(chat, chat')]_vars
    /\ [][(\E i \in DOMAIN chat'.calls : chat'.calls[i][1] = "settled")
            => (chat.loading /\ ~chat'.loading /\ chat'.request = "none")]_vars
    /\ [][(chat.loading /\ chat'.calls # <<>> /\ chat'.calls[1][1] = "keyup")
            => (SendCalls(chat'.calls) = {} /\ SameChatState(chat, chat'))]_vars
    /\ [](chat.loading => chat.request = "pending")
    /\ (chat.loading ~> ~chat.loading)

\* Witness of C27: the reply to the second message came without a message;
\* loading is cleared and the history ends with the user's trimmed text.
C27_Witness ==
    /\ chat.calls = << <<"settled", "noMessage">> >>
    /\ ~chat.loading /\ chat.sent = 2
    /\ chat.history[Len(chat.history)] = [role |-> "user", content |-> <<"g", "o">>]

====
